---- MODULE Spec2Model ----
(***************************************************************************)
(* IFC -> CityGML conversion and round-trip parity validation.             *)
(*                                                                         *)
(* The model covers the two command line programs                          *)
(*   installsure/scripts/bim/automation/ifc_to_citygml.py   (convert)      *)
(*   installsure/scripts/bim/automation/validate_roundtrip.py (validate)   *)
(* working on one input directory of IFC files and one output directory    *)
(* of CityGML documents.  The IFC library (ifcopenshell) and the XML       *)
(* library (lxml) are the environment: an IFC file is the list of entities *)
(* the library returns for it, a CityGML file is the element tree written. *)
(***************************************************************************)
EXTENDS Integers, Sequences, FiniteSets, TLC

\* ------------------------------------------------------------------ bounds

MaxFiles == 2        \* files in the input directory of a batch run
MaxBuildings == 2    \* IfcBuilding entities in one IFC file
MaxParams == 3       \* keys of a params dictionary of the estimators
MaxJobs == 3         \* ids that uuid4 hands out in one run of JarvisOps
MaxAppends == 2      \* memory-append requests in one run of JarvisOps
MaxRequests == 4     \* requests served in one run of the secure JarvisOps

\* ------------------------------------------------------------------ inputs

\* Declared names of IfcBuilding entities; "" stands for an empty or unset
\* (None) Name: both are falsy in every `x.Name or ...` of the source.
BuildingNames == {"", "Tower A"}

\* entity.id() of the IfcBuilding entities of one file (STEP ids start at 1)
BuildingIds == 1..MaxBuildings

\* IfcBuildingStorey entities: id(), Name, Elevation.  An Elevation is a
\* float kept in tenths, or None (the attribute exists and is unset).
Float(tenths) == [isNone |-> FALSE, tenths |-> tenths]
None == [isNone |-> TRUE, tenths |-> 0]
StoreyL1 == [id |-> 11, Name |-> "L1", Elevation |-> Float(35)]
StoreyLists == {<<>>, <<StoreyL1>>}

\* One IfcBuilding entity.  nameRaises: reading building.Name raises in the
\* entity source (the only entity-source fault that is modelled).
Buildings ==
    [id : BuildingIds, Name : BuildingNames, nameRaises : BOOLEAN,
     Description : {""}, ObjectType : {""}, classification : {"absent"},
     storeys : StoreyLists]

RECURSIVE SeqsOfLen(_, _)
SeqsOfLen(S, n) ==
    IF n = 0 THEN {<<>>}
    ELSE {Append(s, x) : s \in SeqsOfLen(S, n - 1), x \in S}

SeqsUpTo(S, n) == UNION {SeqsOfLen(S, k) : k \in 0..n}

DistinctIds(bs) == \A i, j \in 1..Len(bs) : i # j => bs[i].id # bs[j].id

\* An IFC file as the entity source presents it.
\*   opens        ifcopenshell.open succeeds
\*   buildings    by_type("IfcBuilding"), in the order returned
\*   looseStoreys IfcBuildingStorey entities aggregated under no building
\*   writable     the target path <stem>.gml can be written
UnopenableFile ==
    [opens |-> FALSE, buildings |-> <<>>, looseStoreys |-> <<>>, writable |-> TRUE]

OpenableFiles ==
    {[opens |-> TRUE, buildings |-> bs, looseStoreys |-> ls, writable |-> w] :
        bs \in {b \in SeqsUpTo(Buildings, MaxBuildings) : DistinctIds(b)},
        ls \in StoreyLists, w \in BOOLEAN}

Files == OpenableFiles \cup {UnopenableFile}

\* The files of a batch run are kept small: at most one building, no storey.
SmallFiles ==
    {f \in Files : /\ Len(f.buildings) <= 1
                   /\ f.looseStoreys = <<>>
                   /\ \A i \in 1..Len(f.buildings) :
                         f.buildings[i].id = 1 /\ f.buildings[i].storeys = <<>>}

\* by_type("IfcBuildingStorey"): every storey entity of the file
RECURSIVE AggregatedStoreys(_)
AggregatedStoreys(bs) ==
    IF bs = <<>> THEN <<>> ELSE Head(bs).storeys \o AggregatedStoreys(Tail(bs))

AllStoreys(file) == file.looseStoreys \o AggregatedStoreys(file.buildings)

\* ------------------------------------------------------------------ documents

\* A file of the output directory: absent, unparseable, or a CityModel
\* element tree (its Building elements in document order).
NoDoc == [kind |-> "none", members |-> <<>>]
CorruptDoc == [kind |-> "corrupt", members |-> <<>>]
Doc(members) == [kind |-> "doc", members |-> members]

NameChild(text) == [tag |-> "name", text |-> text, name |-> "", value |-> ""]
GenericAttribute(k, v) ==
    [tag |-> "genericAttribute", text |-> "", name |-> k, value |-> v]

\* A document left in the output directory by an earlier, unrelated run.
StaleDoc ==
    Doc(<<[id |-> "b-0", children |-> <<NameChild("Old")>>]>>)

InitialTargets == {NoDoc, StaleDoc, CorruptDoc}
BatchInitialTargets == {NoDoc, StaleDoc}

\* Paths
IfcPath(i) == "f" \o ToString(i) \o ".ifc"
GmlPath(i) == "f" \o ToString(i) \o ".gml"

StartsWith(s, prefix) ==
    Len(s) >= Len(prefix) /\ SubSeq(s, 1, Len(prefix)) = prefix

\* ------------------------------------------------------------------ converter

\* str(e) of the exceptions that occur
ReadErrorMsg == "cannot read attribute"
OpenErrorMsg == "cannot open file"
WriteErrorMsg == "cannot write file"
NameErrorMsg == "name 'ifc_model' is not defined"

\* The module ifc_to_citygml.py binds no global named ifc_model.
IfcModelIsGlobal == FALSE

ConversionResult(success, input_file, output_file, n, errors, warnings) ==
    [success |-> success, input_file |-> input_file, output_file |-> output_file,
     buildings_processed |-> n, errors |-> errors, warnings |-> warnings]

ConverterInit == [buildings_processed |-> 0, errors |-> <<>>, warnings |-> <<>>]

\* create_citymodel_root: the root's only child is the boundedBy placeholder;
\* the model keeps the cityObjectMember/Building children of the root.
create_citymodel_root == <<>>

\* add_building: appends one cityObjectMember/Building with its name child
add_building(citymodel, name, gml_id) ==
    Append(citymodel, [id |-> gml_id, children |-> <<NameChild(name)>>])

\* str(elevation): str of a float kept in tenths, or of None
StrFloat(e) ==
    IF e.isNone THEN "None"
    ELSE ToString(e.tenths \div 10) \o "." \o ToString(e.tenths % 10)

\* extract_building_storeys: the storeys reached through IfcRelAggregates
RECURSIVE StoreyInfos(_)
StoreyInfos(objs) ==
    IF objs = <<>> THEN <<>>
    ELSE LET obj == Head(objs) IN
         <<[name |-> IF obj.Name # "" THEN obj.Name
                     ELSE "Storey_" \o ToString(obj.id),
            elevation |-> obj.Elevation]>> \o StoreyInfos(Tail(objs))

extract_building_storeys(building) == StoreyInfos(building.storeys)

\* Variant: all name children first, then all elevations
StoreyChildren_grouped(storeys) ==
    [j \in 1..Len(storeys) |-> NameChild("Storey::" \o storeys[j].name)]
    \o [j \in 1..Len(storeys) |->
           GenericAttribute("storey_elevation", StrFloat(storeys[j].elevation))]

\* Variant: the storeys are written last to first
RECURSIVE StoreyChildren_reversed(_)
StoreyChildren_reversed(storeys) ==
    IF storeys = <<>> THEN <<>>
    ELSE StoreyChildren_reversed(Tail(storeys))
         \o <<NameChild("Storey::" \o Head(storeys).name),
              GenericAttribute("storey_elevation", StrFloat(Head(storeys).elevation))>>

\* add_storey_information: per storey a name child, then its elevation
RECURSIVE StoreyChildren(_)
StoreyChildren(storeys) ==
    IF storeys = <<>> THEN <<>>
    ELSE <<NameChild("Storey::" \o Head(storeys).name),
           GenericAttribute("storey_elevation", StrFloat(Head(storeys).elevation))>>
         \o StoreyChildren(Tail(storeys))

add_storey_information(citymodel, k, storeys) ==
    [citymodel EXCEPT ![k].children = @ \o StoreyChildren(storeys)]

\* extract_building_properties: the property dict in insertion order, as
\* <<key, value>> pairs.  Line 114 reads the name ifc_model, which is neither
\* a parameter nor a local nor a module global: NameError.
BasicProperties(building) ==
    (IF building.Name # "" THEN <<(<<"name", building.Name>>)>> ELSE <<>>)
    \o (IF building.Description # ""
        THEN <<(<<"description", building.Description>>)>> ELSE <<>>)
    \o <<(<<"global_id", "gid-" \o ToString(building.id)>>)>>
    \o (IF building.ObjectType # ""
        THEN <<(<<"object_type", building.ObjectType>>)>> ELSE <<>>)

ClassificationProperty(building) ==
    IF building.classification = "absent" THEN <<>>
    ELSE <<(<<"classification",
              IF building.classification # "" THEN building.classification
              ELSE "Unknown">>)>>

extract_building_properties(building) ==
    IF IfcModelIsGlobal
    THEN [raised |-> FALSE, error |-> "",
          properties |-> BasicProperties(building) \o ClassificationProperty(building)]
    ELSE [raised |-> TRUE, error |-> NameErrorMsg, properties |-> <<>>]

\* add_building_properties: one generic attribute per key other than name
RECURSIVE PropertyChildren(_)
PropertyChildren(properties) ==
    IF properties = <<>> THEN <<>>
    ELSE (IF Head(properties)[1] # "name"
          THEN <<GenericAttribute(Head(properties)[1], Head(properties)[2])>>
          ELSE <<>>) \o PropertyChildren(Tail(properties))

add_building_properties(citymodel, k, properties) ==
    [citymodel EXCEPT ![k].children = @ \o PropertyChildren(properties)]

BuildingError(idx, msg) ==
    "Error processing building " \o ToString(idx) \o ": " \o msg

\* Variant: the exception is swallowed without a record
OnBuildingError_swallow(self, idx, msg) == self

\* except branch of the per-building try (lines 184-187)
OnBuildingError(self, idx, msg) ==
    [self EXCEPT !.errors = Append(@, BuildingError(idx, msg))]

\* Variant: the default name is built from the entity id
BuildingName_id(building, idx) ==
    IF building.Name # "" THEN building.Name
    ELSE "Building_" \o ToString(building.id)

\* Default name of the building at position idx (line 166)
BuildingName(building, idx) ==
    IF building.Name # "" THEN building.Name ELSE "Building_" \o ToString(idx)

\* Variant: the identifier does not follow the position
BuildingId_fixed(idx) == "b-0"

\* Target identifier of the building at position idx (line 167)
BuildingId(idx) == "b-" \o ToString(idx)

\* One iteration of the loop over the buildings (lines 163-187).
\* st = [self, citymodel]
ProcessBuilding(st, building, idx) ==
    IF building.nameRaises
    THEN [st EXCEPT !.self = OnBuildingError(@, idx, ReadErrorMsg)]
    ELSE
      LET cm1 == add_building(st.citymodel, BuildingName(building, idx), BuildingId(idx))
          storeys == extract_building_storeys(building)
          cm2 == IF storeys # <<>>
                 THEN add_storey_information(cm1, Len(cm1), storeys) ELSE cm1
          props == extract_building_properties(building)
      IN IF props.raised
         THEN [self |-> OnBuildingError(st.self, idx, props.error), citymodel |-> cm2]
         ELSE [self |-> [st.self EXCEPT !.buildings_processed = @ + 1],
               citymodel |-> add_building_properties(cm2, Len(cm2), props.properties)]

\* Variant: a file without buildings gets a placeholder building
RECURSIVE ProcessBuildings_placeholder(_, _, _)
ProcessBuildings_placeholder(st, buildings, idx) ==
    IF buildings = <<>>
    THEN [st EXCEPT !.citymodel = add_building(@, "UnknownBuilding_0", "b-0")]
    ELSE IF idx >= Len(buildings) THEN st
    ELSE ProcessBuildings_placeholder(ProcessBuilding(st, buildings[idx + 1], idx),
                                      buildings, idx + 1)

\* for idx, building in enumerate(buildings), from position idx on
RECURSIVE ProcessBuildings(_, _, _)
ProcessBuildings(st, buildings, idx) ==
    IF idx >= Len(buildings) THEN st
    ELSE ProcessBuildings(ProcessBuilding(st, buildings[idx + 1], idx), buildings, idx + 1)

\* Warnings for a file without buildings (lines 155-160)
NoBuildingWarnings(file) ==
    IF file.buildings # <<>> THEN <<>>
    ELSE <<"No IfcBuilding entities found in IFC file">>
         \o (IF AllStoreys(file) # <<>>
             THEN <<"Found " \o ToString(Len(AllStoreys(file)))
                    \o " building storeys without building entity">>
             ELSE <<>>)

FileError(i, msg) == "Error processing IFC file " \o IfcPath(i) \o ": " \o msg

\* except branch of the file-level try (lines 204-216)
OnFileError(self, i, msg) ==
    LET self2 == [self EXCEPT !.errors = Append(@, FileError(i, msg))] IN
    [self |-> self2, written |-> FALSE, doc |-> NoDoc,
     result |-> ConversionResult(FALSE, IfcPath(i), "", 0, self2.errors, self2.warnings)]

\* Variant: the fields of the instance are kept from the previous file
ResetConverter_keep(self) == self

\* Reset of the instance fields at the start of process_ifc_file (140-142)
ResetConverter(self) ==
    [self EXCEPT !.buildings_processed = 0, !.errors = <<>>, !.warnings = <<>>]

\* process_ifc_file on the i-th file of the input directory, called on an
\* instance whose fields are self.
\* Returns the converter's fields, whether and what was written, the result.
process_ifc_file(self, file, i) ==
    LET self1 == ResetConverter(self) IN
    IF ~file.opens THEN OnFileError(self1, i, OpenErrorMsg)
    ELSE
      LET self2 == [self1 EXCEPT !.warnings = @ \o NoBuildingWarnings(file)]
          st == ProcessBuildings([self |-> self2, citymodel |-> create_citymodel_root],
                                 file.buildings, 0)
      IN IF ~file.writable THEN OnFileError(st.self, i, WriteErrorMsg)
         ELSE [self |-> st.self, written |-> TRUE, doc |-> Doc(st.citymodel),
               result |-> ConversionResult(Len(st.self.errors) = 0, IfcPath(i),
                                           GmlPath(i), st.self.buildings_processed,
                                           st.self.errors, st.self.warnings)]

\* ------------------------------------------------------------------ validator

ValidatorInit == [errors |-> <<>>, warnings |-> <<>>]

\* Default name the validator gives a building (line 53)
IfcBuildingName(building) ==
    IF building.Name # "" THEN building.Name
    ELSE "Building_" \o ToString(building.id)

RECURSIVE IfcBuildingNames(_)
IfcBuildingNames(bs) ==
    IF bs = <<>> THEN <<>>
    ELSE <<IfcBuildingName(Head(bs))>> \o IfcBuildingNames(Tail(bs))

\* count_ifc_buildings: [self, count, names]; any exception gives (0, [])
count_ifc_buildings(self, file, i) ==
    IF ~file.opens
    THEN [self |-> [self EXCEPT !.errors = Append(@,
                      "Error reading IFC file " \o IfcPath(i) \o ": " \o OpenErrorMsg)],
          count |-> 0, names |-> <<>>]
    ELSE IF \E k \in 1..Len(file.buildings) : file.buildings[k].nameRaises
    THEN [self |-> [self EXCEPT !.errors = Append(@,
                      "Error reading IFC file " \o IfcPath(i) \o ": " \o ReadErrorMsg)],
          count |-> 0, names |-> <<>>]
    ELSE [self |-> self, count |-> Len(file.buildings),
          names |-> IfcBuildingNames(file.buildings)]

\* count_ifc_storeys: [self, count]; counts by_type("IfcBuildingStorey")
count_ifc_storeys(self, file, i) ==
    IF ~file.opens
    THEN [self |-> [self EXCEPT !.errors = Append(@,
                      "Error reading IFC storeys " \o IfcPath(i) \o ": " \o OpenErrorMsg)],
          count |-> 0]
    ELSE [self |-> self, count |-> Len(AllStoreys(file))]

\* .//gml:name under one Building element, in document order
RECURSIVE NameTexts(_)
NameTexts(children) ==
    IF children = <<>> THEN <<>>
    ELSE (IF Head(children).tag = "name" THEN <<Head(children).text>> ELSE <<>>)
         \o NameTexts(Tail(children))

\* //gml:name of a document, in document order
RECURSIVE AllNameTexts(_)
AllNameTexts(members) ==
    IF members = <<>> THEN <<>>
    ELSE NameTexts(Head(members).children) \o AllNameTexts(Tail(members))

\* name of a Building element: its first gml:name, or "Unknown"
CityGmlBuildingName(element) ==
    IF NameTexts(element.children) # <<>> THEN NameTexts(element.children)[1]
    ELSE "Unknown"

RECURSIVE CityGmlBuildingNames(_)
CityGmlBuildingNames(members) ==
    IF members = <<>> THEN <<>>
    ELSE <<CityGmlBuildingName(Head(members))>> \o CityGmlBuildingNames(Tail(members))

\* Variant: every gml:name of the document is counted as a building
count_citygml_buildings_names(self, doc, i) ==
    IF doc.kind # "doc"
    THEN [self |-> [self EXCEPT !.errors = Append(@,
                      "Error reading CityGML file " \o GmlPath(i) \o ": parse error")],
          count |-> 0, names |-> <<>>]
    ELSE [self |-> self, count |-> Len(AllNameTexts(doc.members)),
          names |-> CityGmlBuildingNames(doc.members)]

\* count_citygml_buildings: [self, count, names]
count_citygml_buildings(self, doc, i) ==
    IF doc.kind # "doc"
    THEN [self |-> [self EXCEPT !.errors = Append(@,
                      "Error reading CityGML file " \o GmlPath(i) \o ": parse error")],
          count |-> 0, names |-> <<>>]
    ELSE [self |-> self, count |-> Len(doc.members),
          names |-> CityGmlBuildingNames(doc.members)]

\* //c:genericAttribute[@name='storey_elevation'] of a document
RECURSIVE ElevationValues(_)
ElevationValues(children) ==
    IF children = <<>> THEN <<>>
    ELSE (IF Head(children).tag = "genericAttribute"
             /\ Head(children).name = "storey_elevation"
          THEN <<Head(children).value>> ELSE <<>>)
         \o ElevationValues(Tail(children))

RECURSIVE AllElevationValues(_)
AllElevationValues(members) ==
    IF members = <<>> THEN <<>>
    ELSE ElevationValues(Head(members).children) \o AllElevationValues(Tail(members))

\* float(text) succeeds
ParsesAsFloat(text) == text # "None"

StoreyMarked(texts) == SelectSeq(texts, LAMBDA t : StartsWith(t, "Storey::"))

\* count_citygml_storeys: [self, count]
count_citygml_storeys(self, doc, i) ==
    IF doc.kind # "doc"
    THEN [self |-> [self EXCEPT !.errors = Append(@,
                      "Error reading CityGML storeys " \o GmlPath(i) \o ": parse error")],
          count |-> 0]
    ELSE
      LET storey_names == StoreyMarked(AllNameTexts(doc.members))
          elevation_attrs == AllElevationValues(doc.members)
      IN IF /\ storey_names # <<>>
            /\ elevation_attrs # <<>>
            /\ ~ParsesAsFloat(elevation_attrs[1])
         THEN [self |-> [self EXCEPT !.errors = Append(@,
                      "Error reading CityGML storeys " \o GmlPath(i)
                      \o ": could not convert string to float")],
               count |-> 0]
         ELSE [self |-> self, count |-> Len(storey_names)]

Range(s) == {s[k] : k \in 1..Len(s)}

\* Variant: parity means that both sides have a building
BuildingsParity_nonzero(ifc_buildings, citygml_buildings) ==
    ~(ifc_buildings = 0 \/ citygml_buildings = 0)

\* buildings_parity (line 167)
BuildingsParity(ifc_buildings, citygml_buildings) == ifc_buildings = citygml_buildings

\* Variant: the names are compared as lists
PropertiesParity_lists(ifc_buildings, citygml_buildings, ifc_names, citygml_names) ==
    ~(ifc_buildings > 0 /\ citygml_buildings > 0 /\ ifc_names # citygml_names)

\* properties_parity (lines 177-185): the names are compared as sets, and
\* only when both sides have a building
PropertiesParity(ifc_buildings, citygml_buildings, ifc_names, citygml_names) ==
    ~(/\ ifc_buildings > 0
      /\ citygml_buildings > 0
      /\ Range(ifc_names) # Range(citygml_names))

\* validate_parity on the i-th file and its counterpart: [self, result]
validate_parity(file, doc, i) ==
    LET self0 == ValidatorInit
        ib == count_ifc_buildings(self0, file, i)
        is == count_ifc_storeys(ib.self, file, i)
        cb == count_citygml_buildings(is.self, doc, i)
        cs == count_citygml_storeys(cb.self, doc, i)
        buildings_parity == BuildingsParity(ib.count, cb.count)
        e1 == IF ~buildings_parity
              THEN Append(cs.self.errors,
                          "Building count mismatch: IFC=" \o ToString(ib.count)
                          \o ", CityGML=" \o ToString(cb.count))
              ELSE cs.self.errors
        storeys_parity == is.count = cs.count
        e2 == IF ~storeys_parity
              THEN Append(e1, "Storeys count mismatch: IFC=" \o ToString(is.count)
                              \o ", CityGML=" \o ToString(cs.count))
              ELSE e1
        properties_parity ==
            PropertiesParity(ib.count, cb.count, ib.names, cb.names)
        e3 == IF ~properties_parity
              THEN Append(e2, "Building names not preserved in CityGML")
              ELSE e2
        w1 == IF ib.count = 0 THEN <<"No buildings found in IFC file">> ELSE <<>>
        w2 == IF cb.count = 0 THEN <<"No buildings found in CityGML file">> ELSE <<>>
    IN [self |-> [errors |-> e3, warnings |-> w1 \o w2],
        result |-> [ifc_file |-> IfcPath(i), citygml_file |-> GmlPath(i),
                    buildings_parity |-> buildings_parity,
                    storeys_parity |-> storeys_parity,
                    properties_parity |-> properties_parity,
                    ifc_buildings |-> ib.count, citygml_buildings |-> cb.count,
                    ifc_storeys |-> is.count, citygml_storeys |-> cs.count,
                    errors |-> e3, warnings |-> w1 \o w2]]

\* Entry of the validate run's log for a pair whose target file is missing
MissingPair(i) ==
    [missing |-> TRUE, passed |-> FALSE,
     result |-> [ifc_file |-> IfcPath(i), citygml_file |-> GmlPath(i),
                 buildings_parity |-> FALSE, storeys_parity |-> FALSE,
                 properties_parity |-> FALSE,
                 ifc_buildings |-> 0, citygml_buildings |-> 0,
                 ifc_storeys |-> 0, citygml_storeys |-> 0,
                 errors |-> <<"Missing CityGML file: " \o GmlPath(i)>>,
                 warnings |-> <<>>]]

\* ------------------------------------------------------------------ estimators

\* shared/lib/python/estimator_old.py and estimator_new.py.  A params
\* dictionary is a function from its keys to its values.
ParamKeys == {"k" \o ToString(i) : i \in 1..MaxParams}
ParamValues == {0, 1, 33, 100}
ParamDicts == UNION {[keys -> ParamValues] : keys \in SUBSET ParamKeys}

\* sum(params.values())
RECURSIVE SumValues(_)
SumValues(params) ==
    IF DOMAIN params = {} THEN 0
    ELSE LET key == CHOOSE x \in DOMAIN params : TRUE IN
         params[key] + SumValues([x \in DOMAIN params \ {key} |-> params[x]])

\* int * 0.1 and int + float: the double nearest to the product or sum.  On
\* the sums that occur a double is identified by the decimal it prints for,
\* kept in tenths; both estimators apply the same two operations.
TimesOneTenth(n) == Float(n)
IntPlusFloat(n, x) == Float(10 * n + x.tenths)

NoParametersError == [error |-> "No parameters provided"]

\* estimator_old.estimate
estimate_old(params) ==
    IF DOMAIN params = {} THEN NoParametersError
    ELSE LET total == SumValues(params)
             overhead == TimesOneTenth(total)
         IN [base_estimate |-> total,
             overhead |-> overhead,
             total |-> IntPlusFloat(total, overhead),
             parameter_count |-> Cardinality(DOMAIN params)]

\* Variant: the overhead is computed with integer division
estimate_new_floor(params) ==
    IF DOMAIN params = {} THEN NoParametersError
    ELSE LET base_estimate == SumValues(params)
             overhead == Float(10 * (base_estimate \div 10))
         IN [base_estimate |-> base_estimate,
             overhead |-> overhead,
             total |-> IntPlusFloat(base_estimate, overhead),
             parameter_count |-> Cardinality(DOMAIN params)]

\* estimator_new.estimate
estimate_new(params) ==
    IF DOMAIN params = {} THEN NoParametersError
    ELSE LET base_estimate == SumValues(params)
             overhead == TimesOneTenth(base_estimate)
         IN [base_estimate |-> base_estimate,
             overhead |-> overhead,
             total |-> IntPlusFloat(base_estimate, overhead),
             parameter_count |-> Cardinality(DOMAIN params)]

\* No call has returned yet
NotRun == [returned |-> FALSE]

\* ------------------------------------------------------------------ JarvisOps

\* installsure/jarvisops/app/main.py.  JOBS and MEMORY are module globals:
\* dictionaries, here functions from the keys they hold.

\* str(uuid.uuid4()): ids are fresh, no id is handed out twice
JobIds == {"u" \o ToString(i) : i \in 1..MaxJobs}

\* What a client may ask for: an id handed out, or one never handed out
LookupIds == JobIds \cup {"non-existent-id"}

\* d[key] = value
DictSet(d, key, value) ==
    [x \in DOMAIN d \cup {key} |-> IF x = key THEN value ELSE d[x]]

\* plan: JOBS[pid] = {"status": "PLANNED"}
plan(jobs, pid) == DictSet(jobs, pid, [status |-> "PLANNED"])

\* Variant: a run is stored as PLANNED until something completes it
run_planned(jobs, jid) == DictSet(jobs, jid, [status |-> "PLANNED"])

\* run: JOBS[jid] = {"status": "COMPLETED"}
run(jobs, jid) == DictSet(jobs, jid, [status |-> "COMPLETED"])

\* job: JOBS.get(job_id, {"status": "UNKNOWN"})
job(jobs, job_id) ==
    IF job_id \in DOMAIN jobs THEN jobs[job_id] ELSE [status |-> "UNKNOWN"]

\* Bodies of memory-append requests: the keys scope and entries may be absent
Scopes == {"global", "site"}
EntryLists == {<<>>, <<"entry1">>, <<"entry2", "entry3">>}
AppendBodies ==
    {<<>>} \cup [scope : Scopes] \cup [entries : EntryLists]
    \cup [scope : Scopes, entries : EntryLists]

\* body.get("scope", "global") and body.get("entries", [])
BodyScope(body) == IF "scope" \in DOMAIN body THEN body.scope ELSE "global"
BodyEntries(body) == IF "entries" \in DOMAIN body THEN body.entries ELSE <<>>

\* Variant: every append goes to the default scope
mem_append_global(memory, body) ==
    LET with == IF "global" \in DOMAIN memory THEN memory
                ELSE DictSet(memory, "global", <<>>)
    IN [with EXCEPT !["global"] = @ \o BodyEntries(body)]

\* mem_append: MEMORY.setdefault(scope, []).extend(body.get("entries", []))
mem_append(memory, body) ==
    LET scope == BodyScope(body)
        with == IF scope \in DOMAIN memory THEN memory
                ELSE DictSet(memory, scope, <<>>)
    IN [with EXCEPT ![scope] = @ \o BodyEntries(body)]

\* mem_get: {"entries": MEMORY.get(scope, [])}
mem_get(memory, scope) ==
    [entries |-> IF scope \in DOMAIN memory THEN memory[scope] ELSE <<>>]

\* No request has been answered yet
NoResponse == [request |-> "none", arg |-> "", body |-> <<>>]

\* ------------------------------------------------------------------ secure JarvisOps

\* installsure/jarvisops/app/secure_main.py.  A datetime is the number of
\* the request during which utcnow() was read; None is NoTime for a
\* datetime, <<>> for a dictionary and "" for a string.
NoTime == 0

\* JobState.__post_init__: the message of the ValueError raised, "" if none
PostInitError(j) ==
    IF j.state = "PLANNED" /\ (j.started # NoTime \/ j.completed # NoTime)
    THEN "PLANNED jobs cannot have started/completed times"
    ELSE IF j.state = "RUNNING" /\ j.started = NoTime
    THEN "RUNNING jobs must have started time"
    ELSE IF j.state = "COMPLETED" /\ (j.started = NoTime \/ j.completed = NoTime)
    THEN "COMPLETED jobs must have both started and completed times"
    ELSE IF j.state = "FAILED" /\ j.started = NoTime
    THEN "FAILED jobs must have started time"
    ELSE ""

\* JobState(...): the dataclass constructor followed by __post_init__
JobState(id, state, created, started, completed, result, error_message) ==
    LET j == [id |-> id, state |-> state, created |-> created,
              started |-> started, completed |-> completed,
              result |-> result, error_message |-> error_message]
    IN [raised |-> PostInitError(j) # "", error |-> PostInitError(j), job |-> j]

\* SecureJobStorage.create_job: [raised, error, jobs]
create_job(jobs, job_id, state, now) ==
    IF job_id \in DOMAIN jobs
    THEN [raised |-> TRUE, error |-> "Job " \o job_id \o " already exists",
          jobs |-> jobs]
    ELSE LET made == JobState(job_id, state, now, NoTime, NoTime, <<>>, "") IN
         IF made.raised
         THEN [raised |-> TRUE, error |-> made.error, jobs |-> jobs]
         ELSE [raised |-> FALSE, error |-> "", jobs |-> DictSet(jobs, job_id, made.job)]

\* SecureJobStorage.update_job_state: [raised, error, jobs]
update_job_state(jobs, job_id, new_state, started, completed, result, error_message) ==
    IF job_id \notin DOMAIN jobs
    THEN [raised |-> TRUE, error |-> "Job " \o job_id \o " not found", jobs |-> jobs]
    ELSE LET old_job == jobs[job_id] IN
         IF old_job.state = "COMPLETED" /\ new_state # "COMPLETED"
         THEN [raised |-> TRUE, error |-> "Cannot modify completed jobs", jobs |-> jobs]
         ELSE LET made == JobState(job_id, new_state, old_job.created,
                              IF started # NoTime THEN started ELSE old_job.started,
                              IF completed # NoTime THEN completed
                              ELSE old_job.completed,
                              IF result # <<>> THEN result ELSE old_job.result,
                              IF error_message # "" THEN error_message
                              ELSE old_job.error_message)
              IN IF made.raised
                 THEN [raised |-> TRUE, error |-> made.error, jobs |-> jobs]
                 ELSE [raised |-> FALSE, error |-> "",
                       jobs |-> DictSet(jobs, job_id, made.job)]

\* uuid.UUID(text) succeeds
IsUuid(text) == text \in JobIds

\* What a client may send as plan_id or job_id
SecureIds == JobIds \cup {"not-a-uuid"}

\* Response of an endpoint: HTTP status, the job id returned ("" if none),
\* the job states the request stored one after the other, the new _jobs
Answer(status, id, stored, jobs) ==
    [status |-> status, id |-> id, stored |-> stored, jobs |-> jobs]

\* create_plan (POST /v1/plan), plan_id the uuid4 drawn
create_plan(jobs, token_ok, plan_id, now) ==
    IF ~token_ok THEN Answer(401, "", <<>>, jobs)
    ELSE LET made == create_job(jobs, plan_id, "PLANNED", now) IN
         IF made.raised THEN Answer(500, "", <<>>, jobs)
         ELSE Answer(200, plan_id, <<"PLANNED">>, made.jobs)

\* run_plan (POST /v1/run), run_id the uuid4 drawn
run_plan(jobs, token_ok, plan_id, run_id, now) ==
    IF ~token_ok THEN Answer(401, "", <<>>, jobs)
    ELSE IF ~IsUuid(plan_id) THEN Answer(422, "", <<>>, jobs)
    ELSE IF plan_id \notin DOMAIN jobs THEN Answer(404, "", <<>>, jobs)
    ELSE IF jobs[plan_id].state # "PLANNED" THEN Answer(400, "", <<>>, jobs)
    ELSE LET run_job == create_job(jobs, run_id, "RUNNING", now) IN
         IF run_job.raised THEN Answer(500, "", <<>>, jobs)
         ELSE LET completed_job ==
                      update_job_state(run_job.jobs, run_id, "COMPLETED", now, now,
                                       <<"success", plan_id>>, "")
              IN IF completed_job.raised
                 THEN Answer(500, "", <<"RUNNING">>, run_job.jobs)
                 ELSE Answer(200, run_id, <<"RUNNING", "COMPLETED">>,
                             completed_job.jobs)

\* get_job (GET /v1/jobs/{job_id})
get_job(jobs, token_ok, job_id) ==
    IF ~token_ok THEN Answer(401, "", <<>>, jobs)
    ELSE IF ~IsUuid(job_id) THEN Answer(400, "", <<>>, jobs)
    ELSE IF job_id \notin DOMAIN jobs THEN Answer(404, "", <<>>, jobs)
    ELSE Answer(200, job_id, <<>>, jobs)

NoSecureResponse ==
    [request |-> "none", arg |-> "", token_ok |-> FALSE, plan_state |-> "",
     status |-> 0, id |-> "", stored |-> <<>>]

\* ------------------------------------------------------------------ list objects

\* The errors and warnings of an instance and of a returned result are
\* Python lists, objects with an identity: the result's fields refer to the
\* very lists self.errors and self.warnings are bound to at the return.
\* The heap is the sequence of the lists allocated so far and a reference
\* is an index into it; 0 refers to nothing.
NoRefs == [errors |-> 0, warnings |-> 0]

\* __init__: self.errors = []; self.warnings = [] in a new process
HeapInit == <<(<<>>), (<<>>)>>
RefsInit == [errors |-> 1, warnings |-> 2]

\* Variant: the lists are emptied in place (self.errors.clear())
BindFresh_clear(h, refs) ==
    [heap |-> [h EXCEPT ![refs.errors] = <<>>, ![refs.warnings] = <<>>],
     refs |-> refs]

\* self.errors = []; self.warnings = [] at the start of process_ifc_file
\* and of validate_parity: both names are bound to new lists
BindFresh(h, refs) ==
    [heap |-> h \o <<(<<>>), (<<>>)>>,
     refs |-> [errors |-> Len(h) + 1, warnings |-> Len(h) + 2]]

\* The appends of one call, made to the lists the names are bound to
StoreLists(b, self) ==
    [b.heap EXCEPT ![b.refs.errors] = self.errors, ![b.refs.warnings] = self.warnings]

\* ------------------------------------------------------------------ state

VARIABLES
    inDirExists,    \* the input directory exists
    outDirExists,   \* the output directory exists
    inFiles,        \* glob("*.ifc") of the input directory
    outFiles,       \* outFiles[i]: the file <stem of inFiles[i]>.gml
    pc,             \* "idle", "convert", "validate", "exited"
    argc,           \* len(sys.argv) of the command that runs or ran last
    cmd,            \* the command that runs or ran last
    exitCode,       \* sys.exit code of the last command, -1 while none
    next,           \* position of the main loop in ifc_files (1-based)
    converter,      \* IFCToCityGMLConverter instance fields
    convResults,    \* results returned by process_ifc_file in this run
    successful_conversions,
    total_buildings,
    validator,      \* RoundTripValidator instance fields
    valLog,         \* per pair of this run: missing target, passed, result
    successful_validations,
    total_errors,
    heap,           \* the list objects of the running command
    self_refs,      \* the lists self.errors and self.warnings are bound to
    result_refs,    \* per returned result: the lists its fields refer to
    est_params,     \* the params dictionary given to both estimators
    old_result,     \* what estimator_old.estimate returned, NotRun before
    new_result,     \* what estimator_new.estimate returned, NotRun before
    JOBS,           \* JarvisOps: the dictionary JOBS
    MEMORY,         \* JarvisOps: the dictionary MEMORY
    plan_ids,       \* ids returned by plan requests so far
    run_ids,        \* ids returned by run requests so far
    append_log,     \* bodies of the memory-append requests so far, in order
    jv_response,    \* the last request of JarvisOps and its response
    sec_threading,  \* secure JarvisOps: the name threading resolves
    sec_state,      \* "unloaded", "loaded", "failed": import of secure_main
    sec_jobs,       \* job_storage._jobs
    sec_completed,  \* ids of the jobs that were ever stored as COMPLETED
    sec_requests,   \* requests served so far
    sec_response    \* the last request of the secure service and its response

convVars == <<converter, convResults, successful_conversions, total_buildings>>
valVars == <<validator, valLog, successful_validations, total_errors>>

estVars == <<est_params, old_result, new_result>>
objVars == <<heap, self_refs, result_refs>>
cliVars == <<inDirExists, outDirExists, inFiles, outFiles, pc, argc, cmd, exitCode, next,
             convVars, valVars, objVars>>

\* No instance has been constructed
NoObjects ==
    /\ heap = <<>>
    /\ self_refs = NoRefs
    /\ result_refs = <<>>

jarvisVars == <<JOBS, MEMORY, plan_ids, run_ids, append_log, jv_response>>
secVars == <<sec_threading, sec_state, sec_jobs, sec_completed, sec_requests,
             sec_response>>
otherVars == <<estVars, jarvisVars, secVars>>

\* secure_main has not been imported
NoSecure ==
    /\ sec_threading = FALSE
    /\ sec_state = "unloaded"
    /\ sec_jobs = <<>>
    /\ sec_completed = {}
    /\ sec_requests = 0
    /\ sec_response = NoSecureResponse

vars == <<cliVars, otherVars>>

\* JarvisOps as the module is imported: both dictionaries empty
NoJarvis ==
    /\ JOBS = <<>>
    /\ MEMORY = <<>>
    /\ plan_ids = {}
    /\ run_ids = {}
    /\ append_log = <<>>
    /\ jv_response = NoResponse

\* Neither command has been started and the directories are empty
CliIdle ==
    /\ inDirExists = FALSE
    /\ outDirExists = FALSE
    /\ inFiles = <<>>
    /\ outFiles = <<>>
    /\ pc = "idle"
    /\ argc = 1
    /\ cmd = "none"
    /\ exitCode = -1
    /\ next = 1
    /\ converter = ConverterInit
    /\ convResults = <<>>
    /\ successful_conversions = 0
    /\ total_buildings = 0
    /\ validator = ValidatorInit
    /\ valLog = <<>>
    /\ successful_validations = 0
    /\ total_errors = 0
    /\ NoObjects

\* The estimators are not called by the two commands
NoEstimate ==
    /\ est_params = <<>>
    /\ old_result = NotRun
    /\ new_result = NotRun

BatchDirs == SeqsUpTo(SmallFiles, MaxFiles)
SingleDirs == SeqsOfLen(Files, 1)

Init ==
    /\ inDirExists \in BOOLEAN
    /\ outDirExists \in BOOLEAN
    /\ inFiles \in (IF inDirExists THEN BatchDirs \cup SingleDirs ELSE {<<>>})
    /\ outFiles \in (IF ~outDirExists THEN SeqsOfLen({NoDoc}, Len(inFiles))
                     ELSE IF Len(inFiles) = 1 THEN SeqsOfLen(InitialTargets, 1)
                     ELSE SeqsOfLen(BatchInitialTargets, Len(inFiles)))
    /\ pc = "idle"
    /\ argc = 1
    /\ cmd = "none"
    /\ exitCode = -1
    /\ next = 1
    /\ converter = ConverterInit
    /\ convResults = <<>>
    /\ successful_conversions = 0
    /\ total_buildings = 0
    /\ validator = ValidatorInit
    /\ valLog = <<>>
    /\ successful_validations = 0
    /\ total_errors = 0
    /\ NoObjects
    /\ NoEstimate
    /\ NoJarvis
    /\ NoSecure

Exit(code) == pc' = "exited" /\ exitCode' = code

\* len(sys.argv): the script name alone, one directory, both directories
ArgCounts == {1, 2, 3}

\* Variant: one successful file is enough for exit code 0
ConvertExitCode_any(successful, files) == IF successful > 0 THEN 0 ELSE 1

\* Exit code after the loop of convert (lines 276-281)
ConvertExitCode(successful, files) == IF successful = files THEN 0 ELSE 1

\* Variant: one passed pair is enough for exit code 0
ValidateExitCode_any(successful, files) == IF successful > 0 THEN 0 ELSE 1

\* Exit code after the loop of validate (lines 276-281)
ValidateExitCode(successful, files) == IF successful = files THEN 0 ELSE 1

\* Each command is a process of its own: starting one starts from fresh
\* memory, and nothing of the command that ran before is left but the files.
FreshConvert ==
    /\ converter' = ConverterInit
    /\ convResults' = <<>>
    /\ successful_conversions' = 0
    /\ total_buildings' = 0

FreshValidate ==
    /\ validator' = ValidatorInit
    /\ valLog' = <<>>
    /\ successful_validations' = 0
    /\ total_errors' = 0

\* converter = IFCToCityGMLConverter() / validator = RoundTripValidator()
FreshObjects ==
    /\ heap' = HeapInit
    /\ self_refs' = RefsInit
    /\ result_refs' = <<>>

\* convert: main() up to the loop (lines 218-248)
ConvertStart ==
    /\ pc \in {"idle", "exited"}
    /\ cmd' = "convert"
    /\ next' = 1
    /\ FreshConvert
    /\ FreshValidate
    /\ FreshObjects
    /\ argc' \in ArgCounts
    /\ IF argc' < 3 THEN Exit(2) /\ UNCHANGED outDirExists
       ELSE IF ~inDirExists THEN Exit(1) /\ UNCHANGED outDirExists
       ELSE /\ outDirExists' = TRUE
            /\ IF inFiles = <<>> THEN Exit(1)
               ELSE pc' = "convert" /\ exitCode' = -1
    /\ UNCHANGED <<inDirExists, inFiles, outFiles, otherVars>>

\* convert: one iteration of the loop over ifc_files (lines 250-267)
ConvertFile ==
    /\ pc = "convert"
    /\ next <= Len(inFiles)
    /\ LET r == process_ifc_file(converter, inFiles[next], next) IN
          /\ converter' = r.self
          /\ outFiles' = IF r.written THEN [outFiles EXCEPT ![next] = r.doc]
                         ELSE outFiles
          /\ convResults' = Append(convResults, r.result)
          /\ successful_conversions' =
                IF r.result.success THEN successful_conversions + 1
                ELSE successful_conversions
          /\ total_buildings' =
                IF r.result.success
                THEN total_buildings + r.result.buildings_processed
                ELSE total_buildings
          /\ LET b == BindFresh(heap, self_refs) IN
                /\ heap' = StoreLists(b, r.self)
                /\ self_refs' = b.refs
                /\ result_refs' = Append(result_refs, b.refs)
    /\ next' = next + 1
    /\ UNCHANGED <<inDirExists, outDirExists, inFiles, pc, argc, cmd, exitCode, valVars,
                   otherVars>>

\* convert: summary and exit code (lines 269-281)
ConvertExit ==
    /\ pc = "convert"
    /\ next > Len(inFiles)
    /\ Exit(ConvertExitCode(successful_conversions, Len(inFiles)))
    /\ UNCHANGED <<inDirExists, outDirExists, inFiles, outFiles, argc, cmd, next,
                   convVars, valVars, objVars, otherVars>>

\* Variant: a pair passes when its three parity flags are true
PairPassed_flags(result) ==
    result.buildings_parity /\ result.storeys_parity /\ result.properties_parity

\* A pair passes when its result holds no error (`if result.errors:`, 252-259)
PairPassed(result) == result.errors = <<>>

\* validate: main() up to the loop (lines 207-238)
ValidateStart ==
    /\ pc \in {"idle", "exited"}
    /\ cmd' = "validate"
    /\ next' = 1
    /\ FreshConvert
    /\ FreshValidate
    /\ FreshObjects
    /\ argc' \in ArgCounts
    /\ IF argc' < 3 THEN Exit(2)
       ELSE IF ~inDirExists THEN Exit(1)
       ELSE IF ~outDirExists THEN Exit(1)
       ELSE IF inFiles = <<>> THEN Exit(1)
       ELSE pc' = "validate" /\ exitCode' = -1
    /\ UNCHANGED <<inDirExists, outDirExists, inFiles, outFiles, otherVars>>

\* validate: one iteration of the loop over ifc_files (lines 240-268)
ValidatePair ==
    /\ pc = "validate"
    /\ next <= Len(inFiles)
    /\ IF outFiles[next].kind = "none"
       THEN /\ total_errors' = total_errors + 1
            /\ valLog' = Append(valLog, MissingPair(next))
            /\ result_refs' = Append(result_refs, NoRefs)
            /\ UNCHANGED <<validator, successful_validations, heap, self_refs>>
       ELSE LET r == validate_parity(inFiles[next], outFiles[next], next) IN
            /\ validator' = r.self
            /\ total_errors' = total_errors + Len(r.result.errors)
            /\ successful_validations' =
                  IF ~PairPassed(r.result) THEN successful_validations
                  ELSE successful_validations + 1
            /\ valLog' = Append(valLog, [missing |-> FALSE,
                                         passed |-> PairPassed(r.result),
                                         result |-> r.result])
            /\ LET b == BindFresh(heap, self_refs) IN
                  /\ heap' = StoreLists(b, r.self)
                  /\ self_refs' = b.refs
                  /\ result_refs' = Append(result_refs, b.refs)
    /\ next' = next + 1
    /\ UNCHANGED <<inDirExists, outDirExists, inFiles, outFiles, pc, argc, cmd,
                   exitCode, convVars, otherVars>>

\* validate: summary and exit code (lines 270-281)
ValidateExit ==
    /\ pc = "validate"
    /\ next > Len(inFiles)
    /\ Exit(ValidateExitCode(successful_validations, Len(inFiles)))
    /\ UNCHANGED <<inDirExists, outDirExists, inFiles, outFiles, argc, cmd, next,
                   convVars, valVars, objVars, otherVars>>

Next ==
    \/ ConvertStart
    \/ ConvertFile
    \/ ConvertExit
    \/ ValidateStart
    \/ ValidatePair
    \/ ValidateExit

Spec == Init /\ [][Next]_vars

\* ------------------------------------------------------------------ richer inputs

\* A second set of start states: one file per directory, its buildings with
\* several storeys, unset attributes, property values and classifications.
\* Storeys listed under different owners are different entities.
StoreyUnnamed == [id |-> 12, Name |-> "", Elevation |-> Float(0)]
StoreyNoElevation == [id |-> 13, Name |-> "L2", Elevation |-> None]

\* Shapes of IfcBuilding entities, the id left open
BuildingShapes ==
    { [Name |-> "Tower A", nameRaises |-> FALSE, Description |-> "",
       ObjectType |-> "", classification |-> "absent", storeys |-> <<>>],
      [Name |-> "Tower A", nameRaises |-> FALSE, Description |-> "Office",
       ObjectType |-> "ELEMENT", classification |-> "Pr_20",
       storeys |-> <<StoreyL1>>],
      [Name |-> "", nameRaises |-> FALSE, Description |-> "",
       ObjectType |-> "", classification |-> "", storeys |-> <<>>],
      [Name |-> "Tower B", nameRaises |-> FALSE, Description |-> "",
       ObjectType |-> "", classification |-> "absent",
       storeys |-> <<StoreyL1, StoreyUnnamed>>],
      [Name |-> "Tower B", nameRaises |-> FALSE, Description |-> "",
       ObjectType |-> "", classification |-> "absent",
       storeys |-> <<StoreyNoElevation>>],
      [Name |-> "Storey::X", nameRaises |-> FALSE, Description |-> "",
       ObjectType |-> "", classification |-> "absent", storeys |-> <<>>] }

RichBuildings ==
    {[id |-> i, Name |-> b.Name, nameRaises |-> b.nameRaises,
      Description |-> b.Description, ObjectType |-> b.ObjectType,
      classification |-> b.classification, storeys |-> b.storeys] :
        i \in BuildingIds, b \in BuildingShapes}

RichFiles ==
    {[opens |-> TRUE, buildings |-> bs, looseStoreys |-> <<>>, writable |-> TRUE] :
        bs \in {b \in SeqsUpTo(RichBuildings, MaxBuildings) : DistinctIds(b)}}

\* Documents left by earlier runs: one Building "Old"; one Building "Tower A"
StaleTowerDoc ==
    Doc(<<[id |-> "b-0", children |-> <<NameChild("Tower A")>>]>>)

RichTargets == {NoDoc, StaleDoc, StaleTowerDoc}

InitRich ==
    /\ inDirExists = TRUE
    /\ outDirExists = TRUE
    /\ inFiles \in SeqsOfLen(RichFiles, 1)
    /\ outFiles \in SeqsOfLen(RichTargets, 1)
    /\ pc = "idle"
    /\ argc = 1
    /\ cmd = "none"
    /\ exitCode = -1
    /\ next = 1
    /\ converter = ConverterInit
    /\ convResults = <<>>
    /\ successful_conversions = 0
    /\ total_buildings = 0
    /\ validator = ValidatorInit
    /\ valLog = <<>>
    /\ successful_validations = 0
    /\ total_errors = 0
    /\ NoObjects
    /\ NoEstimate
    /\ NoJarvis
    /\ NoSecure

SpecRich == InitRich /\ [][Next]_vars

\* ------------------------------------------------------------------ estimator runs

\* test_equivalence: both estimators are called on the same dictionary
InitEstimator ==
    /\ inDirExists = FALSE
    /\ outDirExists = FALSE
    /\ inFiles = <<>>
    /\ outFiles = <<>>
    /\ pc = "idle"
    /\ argc = 1
    /\ cmd = "none"
    /\ exitCode = -1
    /\ next = 1
    /\ converter = ConverterInit
    /\ convResults = <<>>
    /\ successful_conversions = 0
    /\ total_buildings = 0
    /\ validator = ValidatorInit
    /\ valLog = <<>>
    /\ successful_validations = 0
    /\ total_errors = 0
    /\ NoObjects
    /\ est_params \in ParamDicts
    /\ old_result = NotRun
    /\ new_result = NotRun
    /\ NoJarvis
    /\ NoSecure

EstimateOld ==
    /\ old_result = NotRun
    /\ old_result' = estimate_old(est_params)
    /\ UNCHANGED <<cliVars, jarvisVars, secVars, est_params, new_result>>

EstimateNew ==
    /\ new_result = NotRun
    /\ new_result' = estimate_new(est_params)
    /\ UNCHANGED <<cliVars, jarvisVars, secVars, est_params, old_result>>

NextEstimator ==
    \/ EstimateOld
    \/ EstimateNew

SpecEstimator == InitEstimator /\ [][NextEstimator]_vars

\* ------------------------------------------------------------------ JarvisOps requests

InitJarvis ==
    /\ CliIdle
    /\ NoEstimate
    /\ NoJarvis
    /\ NoSecure

\* POST /v1/plan
Plan ==
    /\ \E pid \in JobIds \ (plan_ids \cup run_ids) :
          /\ JOBS' = plan(JOBS, pid)
          /\ plan_ids' = plan_ids \cup {pid}
          /\ jv_response' = [request |-> "plan", arg |-> "", body |-> <<pid>>]
    /\ UNCHANGED <<cliVars, estVars, secVars, MEMORY, run_ids, append_log>>

\* POST /v1/run
Run ==
    /\ \E jid \in JobIds \ (plan_ids \cup run_ids) :
          /\ JOBS' = run(JOBS, jid)
          /\ run_ids' = run_ids \cup {jid}
          /\ jv_response' = [request |-> "run", arg |-> "", body |-> <<jid>>]
    /\ UNCHANGED <<cliVars, estVars, secVars, MEMORY, plan_ids, append_log>>

\* GET /v1/jobs/{job_id}
Job ==
    /\ \E job_id \in LookupIds :
          jv_response' = [request |-> "job", arg |-> job_id,
                          body |-> <<job(JOBS, job_id).status>>]
    /\ UNCHANGED <<cliVars, estVars, secVars, JOBS, MEMORY, plan_ids, run_ids, append_log>>

NextJobs ==
    \/ Plan
    \/ Run
    \/ Job

SpecJobs == InitJarvis /\ [][NextJobs]_vars

\* POST /v1/memory/append
MemAppend ==
    /\ Len(append_log) < MaxAppends
    /\ \E body \in AppendBodies :
          /\ MEMORY' = mem_append(MEMORY, body)
          /\ append_log' = Append(append_log, body)
    /\ jv_response' = [request |-> "mem_append", arg |-> "", body |-> <<>>]
    /\ UNCHANGED <<cliVars, estVars, secVars, JOBS, plan_ids, run_ids>>

\* GET /v1/memory/get?scope=...
MemGet ==
    /\ \E scope \in Scopes :
          jv_response' = [request |-> "mem_get", arg |-> scope,
                          body |-> mem_get(MEMORY, scope).entries]
    /\ UNCHANGED <<cliVars, estVars, secVars, JOBS, MEMORY, plan_ids, run_ids, append_log>>

NextMemory ==
    \/ MemAppend
    \/ MemGet

SpecMemory == InitJarvis /\ [][NextMemory]_vars

\* ------------------------------------------------------------------ secure JarvisOps requests

\* secure_main.py uses threading.Lock() (lines 89, 145) and has no
\* `import threading`: the name resolves only if the process that imports
\* the module has put it into builtins.
InitSecure ==
    /\ CliIdle
    /\ NoEstimate
    /\ NoJarvis
    /\ sec_threading \in BOOLEAN
    /\ sec_state = "unloaded"
    /\ sec_jobs = <<>>
    /\ sec_completed = {}
    /\ sec_requests = 0
    /\ sec_response = NoSecureResponse

\* import of the module: job_storage = SecureJobStorage() (line 169)
SecImport ==
    /\ sec_state = "unloaded"
    /\ sec_state' = IF sec_threading THEN "loaded" ELSE "failed"
    /\ UNCHANGED <<cliVars, estVars, jarvisVars, sec_threading, sec_jobs,
                   sec_completed, sec_requests, sec_response>>

\* Ids of the jobs stored as COMPLETED
CompletedIn(jobs) == {id \in DOMAIN jobs : jobs[id].state = "COMPLETED"}

\* One request served: the answer is recorded, _jobs replaced
Served(request, arg, token_ok, answer) ==
    /\ sec_state = "loaded"
    /\ sec_requests < MaxRequests
    /\ sec_requests' = sec_requests + 1
    /\ sec_jobs' = answer.jobs
    /\ sec_completed' = sec_completed \cup CompletedIn(answer.jobs)
    /\ sec_response' =
          [request |-> request, arg |-> arg, token_ok |-> token_ok,
           plan_state |-> IF arg \in DOMAIN sec_jobs THEN sec_jobs[arg].state ELSE "",
           status |-> answer.status, id |-> answer.id, stored |-> answer.stored]
    /\ UNCHANGED <<cliVars, estVars, jarvisVars, sec_threading, sec_state>>

\* POST /v1/plan
SecPlan ==
    \E token_ok \in BOOLEAN, plan_id \in JobIds \ DOMAIN sec_jobs :
        Served("plan", "", token_ok,
               create_plan(sec_jobs, token_ok, plan_id, sec_requests + 1))

\* POST /v1/run
SecRun ==
    \E token_ok \in BOOLEAN, plan_id \in SecureIds, run_id \in JobIds \ DOMAIN sec_jobs :
        Served("run", plan_id, token_ok,
               run_plan(sec_jobs, token_ok, plan_id, run_id, sec_requests + 1))

\* GET /v1/jobs/{job_id}
SecGetJob ==
    \E token_ok \in BOOLEAN, job_id \in SecureIds :
        /\ Served("job", job_id, token_ok, get_job(sec_jobs, token_ok, job_id))
        /\ sec_jobs' = sec_jobs

NextSecure ==
    \/ SecImport
    \/ SecPlan
    \/ SecRun
    \/ SecGetJob

SpecSecure == InitSecure /\ [][NextSecure]_vars

\* ------------------------------------------------------------------ properties

\* The k-th result of the running convert command stands for a written file
Written(k) == convResults[k].output_file # ""

\* No building of the file fails in the entity source
NoReadFault(file) == \A j \in 1..Len(file.buildings) : ~file.buildings[j].nameRaises

\* Processing the building raises: in the entity source or in the converter
Raises(building) ==
    building.nameRaises \/ extract_building_properties(building).raised

DocIds(doc) == [j \in 1..Len(doc.members) |-> doc.members[j].id]
ExpectedIds(n) == [j \in 1..n |-> "b-" \o ToString(j - 1)]

HasElement(doc, idx) ==
    \E j \in 1..Len(doc.members) : doc.members[j].id = "b-" \o ToString(idx)

ErrorsNaming(errors, idx) ==
    SelectSeq(errors, LAMBDA e :
        StartsWith(e, "Error processing building " \o ToString(idx) \o ":"))

\* C1: a source file with N buildings that is converted without a processing
\* error yields a written document with exactly N Building elements whose
\* identifiers are b-0 ... b-(N-1), each once, in source order.  The same
\* holds of every written document none of whose buildings failed before its
\* element was added.
C1_BuildingIds ==
    \A k \in 1..Len(convResults) :
        (Written(k) /\ (convResults[k].errors = <<>> \/ NoReadFault(inFiles[k])))
        => /\ outFiles[k].kind = "doc"
           /\ DocIds(outFiles[k]) = ExpectedIds(Len(inFiles[k].buildings))

C1_Witness ==
    \E k \in 1..Len(convResults) :
        /\ Written(k)
        /\ NoReadFault(inFiles[k])
        /\ Len(inFiles[k].buildings) >= 2
        /\ Len(outFiles[k].members) = Len(inFiles[k].buildings)
        /\ outFiles[k].members[1].id = "b-0"
        /\ outFiles[k].members[2].id = "b-1"

\* C2: round trip.  For a file that process_ifc_file converts with
\* success=true and no error, validate_parity on the source and the target
\* just written reports buildings_parity=true; so it does for every written
\* file none of whose buildings failed before its element was added.
C2_RoundTrip ==
    \A k \in 1..Len(convResults) :
        (Written(k) /\ (\/ convResults[k].success /\ convResults[k].errors = <<>>
                        \/ NoReadFault(inFiles[k])))
        => validate_parity(inFiles[k], outFiles[k], k).result.buildings_parity

C2_Witness ==
    /\ \E k \in 1..Len(convResults) :
          /\ convResults[k].success
          /\ convResults[k].errors = <<>>
          /\ validate_parity(inFiles[k], outFiles[k], k).result.buildings_parity
    /\ \E k \in 1..Len(convResults) :
          /\ Written(k)
          /\ Len(inFiles[k].buildings) >= 1
          /\ validate_parity(inFiles[k], outFiles[k], k).result.buildings_parity

\* C3: when processing building idx raises, and the file itself opens and can
\* be written, the exception is caught: exactly one error naming idx is
\* recorded, every later building is still processed (it leaves its element
\* or its own error), the target file is written and holds the elements of
\* the buildings that succeeded, and the result has success=false.
C3_BuildingErrorTolerated ==
    \A k \in 1..Len(convResults) :
        LET f == inFiles[k]
            r == convResults[k]
            n == Len(f.buildings)
        IN (f.opens /\ f.writable) =>
           /\ Written(k) /\ outFiles[k].kind = "doc"
           /\ \A idx \in 0..(n - 1) :
                 /\ Raises(f.buildings[idx + 1]) =>
                       /\ Len(ErrorsNaming(r.errors, idx)) = 1
                       /\ ~r.success
                       /\ \A j \in (idx + 1)..(n - 1) :
                             \/ HasElement(outFiles[k], j)
                             \/ Len(ErrorsNaming(r.errors, j)) = 1
                 /\ ~Raises(f.buildings[idx + 1]) =>
                       /\ ErrorsNaming(r.errors, idx) = <<>>
                       /\ HasElement(outFiles[k], idx)
           /\ Len(r.errors) =
                 Cardinality({idx \in 0..(n - 1) : Raises(f.buildings[idx + 1])})

C3_Witness ==
    \E k \in 1..Len(convResults) :
        /\ inFiles[k].opens /\ inFiles[k].writable
        /\ Len(inFiles[k].buildings) >= 2
        /\ inFiles[k].buildings[1].nameRaises
        /\ ~inFiles[k].buildings[2].nameRaises
        /\ Len(ErrorsNaming(convResults[k].errors, 0)) = 1
        /\ ~HasElement(outFiles[k], 0)
        /\ HasElement(outFiles[k], 1)
        /\ ~convResults[k].success
        /\ Written(k)

\* C4: a file-level failure in process_ifc_file (the source cannot be opened
\* or the target cannot be written) gives a result with success=false,
\* buildings_processed=0 and exactly one error, the file-level one, and the
\* convert command still processes every remaining file.
C4_FileLevelFailure ==
    /\ \A k \in 1..Len(convResults) :
          (~inFiles[k].opens \/ ~inFiles[k].writable)
          => /\ ~convResults[k].success
             /\ convResults[k].buildings_processed = 0
             /\ Len(convResults[k].errors) = 1
             /\ StartsWith(convResults[k].errors[1], "Error processing IFC file")
    /\ (cmd = "convert" /\ pc = "exited" /\ argc >= 3 /\ inDirExists)
       => Len(convResults) = Len(inFiles)

\* C5: run with both arguments on an existing input directory, the convert
\* command exits with 0 if and only if at least one input file was found and
\* every file's result has success=true, and with 1 otherwise.
C5_ConvertExitCode ==
    (cmd = "convert" /\ pc = "exited" /\ argc >= 3 /\ inDirExists)
    => /\ exitCode \in {0, 1}
       /\ exitCode = 0 <=>
             /\ Len(inFiles) >= 1
             /\ Len(convResults) = Len(inFiles)
             /\ \A k \in 1..Len(convResults) : convResults[k].success

C5_Witness ==
    /\ cmd = "convert" /\ pc = "exited" /\ argc >= 3 /\ inDirExists
    /\ exitCode = 0
    /\ Len(inFiles) >= 2
    /\ \A k \in 1..Len(convResults) : convResults[k].success

AllParity(result) ==
    result.buildings_parity /\ result.storeys_parity /\ result.properties_parity

\* C6: the validate command evaluates every pair, one per iteration and
\* without early exit; a pair whose target is missing is counted as failed
\* with a missing-file error and the loop goes on; the run exits with 1 if a
\* pair failed or a target is missing, and with 0 only if every pair passed.
C6_ValidateEveryPair ==
    /\ (cmd = "validate" /\ pc = "validate") => Len(valLog) = next - 1
    /\ \A k \in 1..Len(valLog) :
          /\ valLog[k].missing <=> outFiles[k].kind = "none"
          /\ valLog[k].missing => ~valLog[k].passed
    /\ total_errors >= Cardinality({k \in 1..Len(valLog) : valLog[k].missing})
    /\ successful_validations =
          Cardinality({k \in 1..Len(valLog) :
                          ~valLog[k].missing /\ valLog[k].result.errors = <<>>})
    /\ (cmd = "validate" /\ pc = "exited" /\ argc >= 3
        /\ inDirExists /\ outDirExists /\ inFiles # <<>>)
       => /\ Len(valLog) = Len(inFiles)
          /\ exitCode \in {0, 1}
          /\ exitCode = 0 <=>
                \A k \in 1..Len(valLog) :
                    ~valLog[k].missing /\ valLog[k].result.errors = <<>>
          /\ exitCode = 0 => \A k \in 1..Len(valLog) : AllParity(valLog[k].result)

C6_Witness ==
    /\ cmd = "validate" /\ pc = "exited" /\ argc >= 3
    /\ Len(inFiles) >= 2
    /\ Len(valLog) = Len(inFiles)
    /\ valLog[1].missing
    /\ ~valLog[2].missing
    /\ valLog[2].result.errors = <<>>
    /\ exitCode = 1

\* C7: both commands exit with code 2 on bad arguments and when a required
\* directory is missing: the input directory for convert, the source or the
\* target directory for validate.
C7_MissingDirectoryExitsTwo ==
    (/\ pc = "exited"
     /\ \/ argc < 3
        \/ cmd = "convert" /\ ~inDirExists
        \/ cmd = "validate" /\ (~inDirExists \/ ~outDirExists))
    => exitCode = 2

\* C8: the name child written for the building at position idx is the
\* declared name when it is not empty and "Building_{idx}" otherwise; no
\* Building element is written with an empty name.
C8_BuildingNames ==
    \A k \in 1..Len(convResults) :
        Written(k) =>
        \A j \in 1..Len(outFiles[k].members) :
            LET element == outFiles[k].members[j] IN
            /\ element.children[1].tag = "name"
            /\ element.children[1].text # ""
            /\ \E idx \in 0..(Len(inFiles[k].buildings) - 1) :
                  LET building == inFiles[k].buildings[idx + 1] IN
                  /\ element.id = "b-" \o ToString(idx)
                  /\ element.children[1].text =
                        IF building.Name # "" THEN building.Name
                        ELSE "Building_" \o ToString(idx)

C8_Witness ==
    \E k \in 1..Len(convResults) :
        /\ Written(k)
        /\ Len(inFiles[k].buildings) = 2
        /\ inFiles[k].buildings[1].Name = "Tower A"
        /\ inFiles[k].buildings[2].Name = ""
        /\ inFiles[k].buildings[2].id # 1
        /\ Len(outFiles[k].members) = 2
        /\ outFiles[k].members[1].children[1].text = "Tower A"
        /\ outFiles[k].members[2].children[1].text = "Building_1"

\* C9: a source file without Building entities yields a written document
\* without Building elements and a result with buildings_processed=0,
\* success=true and at least one warning; when the file holds Storey
\* entities a second warning gives their number, and no building is made up.
C9_NoBuildings ==
    \A k \in 1..Len(convResults) :
        LET f == inFiles[k]
            r == convResults[k]
        IN (f.opens /\ f.writable /\ f.buildings = <<>>) =>
           /\ Written(k)
           /\ outFiles[k] = Doc(<<>>)
           /\ r.buildings_processed = 0
           /\ r.success
           /\ Len(r.warnings) >= 1
           /\ IF Len(f.looseStoreys) > 0
              THEN /\ Len(r.warnings) = 2
                   /\ r.warnings[2] = "Found " \o ToString(Len(f.looseStoreys))
                                      \o " building storeys without building entity"
              ELSE Len(r.warnings) = 1

C9_Witness ==
    \E k \in 1..Len(convResults) :
        /\ inFiles[k].opens /\ inFiles[k].writable
        /\ inFiles[k].buildings = <<>>
        /\ Len(inFiles[k].looseStoreys) > 0
        /\ Written(k)
        /\ outFiles[k] = Doc(<<>>)
        /\ Len(convResults[k].warnings) = 2
        /\ convResults[k].success

HasCountMismatchError(errors) ==
    \E e \in 1..Len(errors) : StartsWith(errors[e], "Building count mismatch")

\* C10: validate_parity sets buildings_parity to true exactly when the
\* number of Building entities of the source equals the number of Building
\* elements of the target (a file that cannot be opened or parsed holds
\* none; the source's entities must be readable), and it records a
\* building-count-mismatch error exactly when buildings_parity is false.
C10_BuildingsParity ==
    \A k \in 1..Len(valLog) :
        ~valLog[k].missing =>
        LET r == valLog[k].result IN
        /\ HasCountMismatchError(r.errors) <=> ~r.buildings_parity
        /\ NoReadFault(inFiles[k]) =>
              (r.buildings_parity <=>
                  Len(inFiles[k].buildings) = Len(outFiles[k].members))

C10_Witness ==
    \E k \in 1..Len(valLog) :
        /\ ~valLog[k].missing
        /\ NoReadFault(inFiles[k])
        /\ Len(inFiles[k].buildings) = 2
        /\ Len(outFiles[k].members) = 1
        /\ ~valLog[k].result.buildings_parity
        /\ HasCountMismatchError(valLog[k].result.errors)

\* "Storey::" name children of a whole target document
TargetStoreyNames(doc) == StoreyMarked(AllNameTexts(doc.members))

\* C11: validate_parity sets storeys_parity to true exactly when the number
\* of Storey entities aggregated under some building of the source equals
\* the number of name children of the target whose text begins with
\* "Storey::", counted across the whole document.
C11_StoreysParity ==
    \A k \in 1..Len(valLog) :
        (~valLog[k].missing /\ inFiles[k].opens /\ outFiles[k].kind = "doc") =>
        (valLog[k].result.storeys_parity <=>
            Len(AggregatedStoreys(inFiles[k].buildings))
                = Len(TargetStoreyNames(outFiles[k])))

\* Names the validator reads on the two sides, as sets
SourceNameSet(file) ==
    {IF file.buildings[j].Name # "" THEN file.buildings[j].Name
     ELSE "Building_" \o ToString(file.buildings[j].id) :
        j \in 1..Len(file.buildings)}

TargetNameSet(doc) ==
    {doc.members[j].children[1].text : j \in 1..Len(doc.members)}

\* C12: validate_parity sets properties_parity to false exactly when both
\* sides have at least one building and the set of source building names
\* differs from the set of target building names, order and multiplicity
\* ignored; when either side has no building, properties_parity is true.
C12_PropertiesParity ==
    \A k \in 1..Len(valLog) :
        ~valLog[k].missing =>
        LET f == inFiles[k]
            doc == outFiles[k]
            r == valLog[k].result
        IN /\ ~r.properties_parity <=>
                 /\ Len(f.buildings) >= 1
                 /\ Len(doc.members) >= 1
                 /\ SourceNameSet(f) # TargetNameSet(doc)
           /\ (Len(f.buildings) = 0 \/ Len(doc.members) = 0) => r.properties_parity

C12_Witness ==
    \E k \in 1..Len(valLog) :
        /\ ~valLog[k].missing
        /\ Len(inFiles[k].buildings) = 2
        /\ inFiles[k].buildings[1].Name = "Tower A"
        /\ inFiles[k].buildings[2].Name = "Tower A"
        /\ Len(outFiles[k].members) = 1
        /\ TargetNameSet(outFiles[k]) = {"Tower A"}
        /\ valLog[k].result.properties_parity
        /\ ~valLog[k].result.buildings_parity

\* sub occurs in s
Contains(s, sub) ==
    \E i \in 1..(Len(s) - Len(sub) + 1) : SubSeq(s, i, i + Len(sub) - 1) = sub

\* C13: when properties parity fails, the errors of the Parity Result name
\* every building name that is missing from the target and every name that
\* is extra in the target.
C13_NamesReported ==
    \A k \in 1..Len(valLog) :
        (~valLog[k].missing /\ ~valLog[k].result.properties_parity) =>
        LET source == SourceNameSet(inFiles[k])
            target == TargetNameSet(outFiles[k])
            errors == valLog[k].result.errors
        IN \A name \in (source \ target) \cup (target \ source) :
              \E e \in 1..Len(errors) : Contains(errors[e], name)

\* Some building of the file has an empty or absent declared name
HasUnnamedBuilding(file) ==
    \E j \in 1..Len(file.buildings) : file.buildings[j].Name = ""

\* C14: the validator gives an unnamed source building the name the
\* converter gave it, so converting a source with unnamed buildings and
\* then validating it yields buildings_parity=true and
\* properties_parity=true.
C14_SameDefaultName ==
    \A k \in 1..Len(convResults) :
        (Written(k) /\ NoReadFault(inFiles[k]) /\ HasUnnamedBuilding(inFiles[k])) =>
        LET r == validate_parity(inFiles[k], outFiles[k], k).result IN
        r.buildings_parity /\ r.properties_parity

\* The element written for the building at position idx of the k-th file
\* (every building of a file without read fault leaves one, see C1)
Element(k, idx) == outFiles[k].members[idx + 1]

ExpectedStoreyNames(building) ==
    [j \in 1..Len(building.storeys) |->
        "Storey::" \o (IF building.storeys[j].Name # "" THEN building.storeys[j].Name
                       ELSE "Storey_" \o ToString(building.storeys[j].id))]

ExpectedElevations(building) ==
    [j \in 1..Len(building.storeys) |-> StrFloat(building.storeys[j].Elevation)]

\* C15: for every storey aggregated under a building, the building's element
\* receives exactly one name child "Storey::{name}" (the declared name, or
\* "Storey_{id}" when it is empty) and exactly one generic attribute
\* storey_elevation whose value is the storey's elevation as a string; the
\* storeys appear in the order of the aggregation relationships.
C15_StoreyChildren ==
    \A k \in 1..Len(convResults) :
        (Written(k) /\ NoReadFault(inFiles[k])) =>
        \A idx \in 0..(Len(inFiles[k].buildings) - 1) :
            LET building == inFiles[k].buildings[idx + 1]
                children == Element(k, idx).children
            IN /\ StoreyMarked(NameTexts(Tail(children))) = ExpectedStoreyNames(building)
               /\ Len(NameTexts(Tail(children))) = Len(building.storeys)
               /\ ElevationValues(children) = ExpectedElevations(building)

C15_Witness ==
    \E k \in 1..Len(convResults) :
        /\ Written(k)
        /\ Len(inFiles[k].buildings) >= 1
        /\ inFiles[k].buildings[1].storeys = <<StoreyL1, StoreyUnnamed>>
        /\ NameTexts(Tail(Element(k, 0).children)) = <<"Storey::L1", "Storey::Storey_12">>
        /\ ElevationValues(Element(k, 0).children) = <<"3.5", "0.0">>

\* Generic attributes of an element other than storey_elevation
PropertyAttributes(children) ==
    SelectSeq(children, LAMBDA c :
        c.tag = "genericAttribute" /\ c.name # "storey_elevation")

\* The attributes claimed for a building: one per present property among
\* description, object_type and classification
ExpectedPropertyAttributes(building) ==
    (IF building.Description # ""
     THEN {GenericAttribute("description", building.Description)} ELSE {})
    \cup (IF building.ObjectType # ""
          THEN {GenericAttribute("object_type", building.ObjectType)} ELSE {})
    \cup (IF building.classification # "absent"
          THEN {GenericAttribute("classification",
                    IF building.classification # "" THEN building.classification
                    ELSE "Unknown")}
          ELSE {})

\* C16: for every building, the generic attributes written besides
\* storey_elevation are exactly one per present non-name property among
\* description, object_type and classification (classification "Unknown"
\* when the classification entity has no name); global_id is never written
\* as a generic attribute.
C16_PropertyAttributes ==
    \A k \in 1..Len(convResults) :
        (Written(k) /\ NoReadFault(inFiles[k])) =>
        \A idx \in 0..(Len(inFiles[k].buildings) - 1) :
            LET building == inFiles[k].buildings[idx + 1]
                written == PropertyAttributes(Element(k, idx).children)
            IN /\ Range(written) = ExpectedPropertyAttributes(building)
               /\ Len(written) = Cardinality(ExpectedPropertyAttributes(building))
               /\ \A j \in 1..Len(written) : written[j].name # "global_id"

\* Group of a child that follows the building's name child: 2 a name
\* child, 3 a storey_elevation attribute, 4 any other generic attribute
ChildGroup(child) ==
    IF child.tag = "name" THEN 2
    ELSE IF child.name = "storey_elevation" THEN 3
    ELSE 4

\* C17 (as claimed): inside every written Building element the building's
\* name child comes first, then all "Storey::" name children, then all
\* storey_elevation attributes, then the building-property attributes; no
\* storey_elevation attribute precedes a "Storey::" name child.
C17_GroupedOrder ==
    \A k \in 1..Len(convResults) :
        Written(k) =>
        \A m \in 1..Len(outFiles[k].members) :
            LET children == outFiles[k].members[m].children
                rest == Tail(children)
            IN /\ children[1].tag = "name"
               /\ \A p, q \in 1..Len(rest) :
                     p < q => ChildGroup(rest[p]) <= ChildGroup(rest[q])

\* C17 (amended): inside every written Building element the building's name
\* child comes first; then, for each storey in resolved order, its
\* "Storey::" name child immediately followed by its storey_elevation
\* attribute; building-property attributes come only after the last storey.
C17_InterleavedOrder ==
    \A k \in 1..Len(convResults) :
        (Written(k) /\ NoReadFault(inFiles[k])) =>
        \A idx \in 0..(Len(inFiles[k].buildings) - 1) :
            LET building == inFiles[k].buildings[idx + 1]
                children == Element(k, idx).children
                rest == Tail(children)
                n == Len(building.storeys)
            IN /\ children[1].tag = "name"
               /\ Len(rest) >= 2 * n
               /\ \A j \in 1..n :
                     /\ rest[2 * j - 1] = NameChild(ExpectedStoreyNames(building)[j])
                     /\ rest[2 * j] = GenericAttribute("storey_elevation",
                                                      ExpectedElevations(building)[j])
               /\ \A p \in (2 * n + 1)..Len(rest) : ChildGroup(rest[p]) = 4

C17_Witness ==
    \E k \in 1..Len(convResults) :
        /\ Written(k)
        /\ Len(inFiles[k].buildings) >= 1
        /\ Len(inFiles[k].buildings[1].storeys) = 2
        /\ Len(Element(k, 0).children) = 5
        /\ Element(k, 0).children[2].text = "Storey::L1"
        /\ Element(k, 0).children[3].name = "storey_elevation"
        /\ Element(k, 0).children[4].text = "Storey::Storey_12"
        /\ Element(k, 0).children[5].name = "storey_elevation"

\* C18: when validate_parity cannot open or parse the source file or the
\* target file, the errors of the returned Parity Result hold exactly one
\* entry, the file-level error; a result is returned and the run goes on to
\* the next pair.
C18_SoleValidationError ==
    /\ \A k \in 1..Len(valLog) :
          (~valLog[k].missing /\ (~inFiles[k].opens \/ outFiles[k].kind = "corrupt"))
          => /\ Len(valLog[k].result.errors) = 1
             /\ StartsWith(valLog[k].result.errors[1], "Error reading")
    /\ (cmd = "validate" /\ pc = "exited" /\ argc >= 3
        /\ inDirExists /\ outDirExists /\ inFiles # <<>>)
       => Len(valLog) = Len(inFiles)

\* A file-level error message carries the path of the file
IsFileError(e) == StartsWith(e, "Error processing IFC file")

\* Two results agree in everything but the paths
SameOutcome(r1, r2) ==
    /\ r1.success = r2.success
    /\ r1.buildings_processed = r2.buildings_processed
    /\ r1.warnings = r2.warnings
    /\ Len(r1.errors) = Len(r2.errors)
    /\ \A e \in 1..Len(r1.errors) :
          \/ r1.errors[e] = r2.errors[e]
          \/ IsFileError(r1.errors[e]) /\ IsFileError(r2.errors[e])

\* C19: the Conversion Result and the written document of a file are a
\* function of that file alone.  Whatever the converter instance processed
\* before (files that failed included), the result and the document equal
\* those of a fresh instance given the file, and two files of equal content
\* get the same document, success flag, buildings_processed, errors and
\* warnings; converting again leaves the same document.
C19_FunctionOfFile ==
    \A k \in 1..Len(convResults) :
        LET fresh == process_ifc_file(ConverterInit, inFiles[k], k) IN
        /\ convResults[k] = fresh.result
        /\ Written(k) <=> fresh.written
        /\ Written(k) => outFiles[k] = fresh.doc
        /\ \A j \in 1..Len(convResults) :
              inFiles[j] = inFiles[k] =>
                 /\ SameOutcome(convResults[j], convResults[k])
                 /\ Written(j) => outFiles[j] = outFiles[k]

C19_Witness ==
    /\ Len(convResults) = 2
    /\ inFiles[1] = inFiles[2]
    /\ Len(inFiles[1].buildings) = 1
    /\ ~inFiles[1].writable
    /\ Len(convResults[1].errors) = 2
    /\ Len(convResults[2].errors) = 2
    /\ convResults[2].errors[1] = convResults[1].errors[1]

\* Sum of the values of a dictionary, key by key
RECURSIVE SumOver(_, _)
SumOver(params, keys) ==
    IF keys = {} THEN 0
    ELSE LET key == CHOOSE x \in keys : TRUE IN
         params[key] + SumOver(params, keys \ {key})

\* C20: estimator_old.estimate and estimator_new.estimate return equal
\* results for every params dictionary with text keys and integer values in
\* 0..100: the same error record for an empty dictionary, and otherwise the
\* same base_estimate (the sum of the values), overhead (10% of the sum),
\* total and parameter_count.
C20_EstimatorsEquivalent ==
    (old_result # NotRun /\ new_result # NotRun) =>
    /\ old_result = new_result
    /\ IF DOMAIN est_params = {}
       THEN new_result = [error |-> "No parameters provided"]
       ELSE LET sum == SumOver(est_params, DOMAIN est_params) IN
            /\ new_result.base_estimate = sum
            /\ new_result.overhead.tenths = sum
            /\ new_result.total.tenths = 11 * sum
            /\ new_result.parameter_count = Cardinality(DOMAIN est_params)

C20_Witness ==
    /\ Cardinality(DOMAIN est_params) = 2
    /\ SumOver(est_params, DOMAIN est_params) = 101
    /\ old_result # NotRun
    /\ new_result = old_result
    /\ new_result.base_estimate = 101
    /\ new_result.parameter_count = 2

\* C21: after any sequence of plan and run requests the job-status lookup
\* returns COMPLETED for every id a run request returned, PLANNED for every
\* id a plan request returned and UNKNOWN for every id no request returned;
\* a stored status is never changed.
C21_JobStatus ==
    /\ \A id \in LookupIds :
          job(JOBS, id).status =
             IF id \in run_ids THEN "COMPLETED"
             ELSE IF id \in plan_ids THEN "PLANNED"
             ELSE "UNKNOWN"
    /\ plan_ids \cap run_ids = {}
    /\ jv_response.request = "job" =>
          jv_response.body[1] =
             IF jv_response.arg \in run_ids THEN "COMPLETED"
             ELSE IF jv_response.arg \in plan_ids THEN "PLANNED"
             ELSE "UNKNOWN"

C21_Witness ==
    /\ plan_ids # {}
    /\ Cardinality(run_ids) >= 2
    /\ jv_response.request = "job"
    /\ jv_response.arg \in run_ids
    /\ jv_response.body = <<"COMPLETED">>

\* Entries of the logged requests for one scope, in request order
RECURSIVE AppendedTo(_, _)
AppendedTo(log, scope) ==
    IF log = <<>> THEN <<>>
    ELSE (IF /\ "entries" \in DOMAIN Head(log)
             /\ \/ "scope" \in DOMAIN Head(log) /\ Head(log).scope = scope
                \/ "scope" \notin DOMAIN Head(log) /\ scope = "global"
          THEN Head(log).entries ELSE <<>>)
         \o AppendedTo(Tail(log), scope)

\* C22: after any sequence of memory-append requests, memory-get for a scope
\* returns exactly the concatenation, in request order, of the entries
\* appended to that scope (the default scope being "global"); an append to
\* one scope leaves every other scope as it was, and a scope never
\* appended to gives an empty list.
C22_MemoryPerScope ==
    /\ \A scope \in Scopes :
          mem_get(MEMORY, scope).entries = AppendedTo(append_log, scope)
    /\ jv_response.request = "mem_get" =>
          jv_response.body = AppendedTo(append_log, jv_response.arg)

C22_Witness ==
    /\ Len(append_log) = 2
    /\ append_log[1] = [scope |-> "site", entries |-> <<"entry2", "entry3">>]
    /\ append_log[2] = [entries |-> <<"entry1">>]
    /\ jv_response.request = "mem_get"
    /\ jv_response.arg = "site"
    /\ jv_response.body = <<"entry2", "entry3">>
    /\ mem_get(MEMORY, "global").entries = <<"entry1">>

\* C23: for a source file that opens, whose entity source raises on no
\* read, and whose target can be written, process_ifc_file returns
\* success=true, an empty errors list and buildings_processed equal to the
\* number of Building entities of the file.
C23_HealthyFileSucceeds ==
    \A k \in 1..Len(convResults) :
        (inFiles[k].opens /\ inFiles[k].writable /\ NoReadFault(inFiles[k])) =>
        /\ convResults[k].success
        /\ convResults[k].errors = <<>>
        /\ convResults[k].buildings_processed = Len(inFiles[k].buildings)

\* Every building has a declared name that does not begin with "Storey::"
\* and every storey is aggregated under one building
WellNamed(file) ==
    /\ \A j \in 1..Len(file.buildings) :
          /\ file.buildings[j].Name # ""
          /\ ~StartsWith(file.buildings[j].Name, "Storey::")
    /\ file.looseStoreys = <<>>

\* C24: end-to-end parity.  For a source file in which every building has a
\* non-empty declared name not beginning with "Storey::" and every storey
\* is aggregated under exactly one building, process_ifc_file followed by
\* validate_parity on the source and the written target yields
\* buildings_parity, storeys_parity and properties_parity all true and an
\* empty errors list.
C24_EndToEndParity ==
    \A k \in 1..Len(convResults) :
        (Written(k) /\ NoReadFault(inFiles[k]) /\ WellNamed(inFiles[k])) =>
        LET r == validate_parity(inFiles[k], outFiles[k], k).result IN
        AllParity(r) /\ r.errors = <<>>

\* C25: whenever process_ifc_file writes a target file, buildings_processed
\* of the returned result equals the number of Building elements of the
\* written document; a building whose processing raised leaves no Building
\* element in the output.
C25_ProcessedEqualsWritten ==
    \A k \in 1..Len(convResults) :
        Written(k) =>
        /\ convResults[k].buildings_processed = Len(outFiles[k].members)
        /\ \A idx \in 0..(Len(inFiles[k].buildings) - 1) :
              Raises(inFiles[k].buildings[idx + 1]) => ~HasElement(outFiles[k], idx)

HasReadError(errors) ==
    \E e \in 1..Len(errors) : StartsWith(errors[e], "Error reading")

\* C26 (as claimed): the validate command counts a pair as successful if
\* and only if the three parity flags of its result are all true; no pair
\* with three true flags is reported as failed.
C26_PassIffFlags ==
    /\ \A k \in 1..Len(valLog) :
          ~valLog[k].missing => (valLog[k].passed <=> AllParity(valLog[k].result))
    /\ successful_validations =
          Cardinality({k \in 1..Len(valLog) :
                          ~valLog[k].missing /\ AllParity(valLog[k].result)})

\* C26 (amended): the validate command counts a pair as successful if and
\* only if the errors list of its result is empty.  A successful pair has
\* its three parity flags true and every pair with a false flag is reported
\* as failed; a pair whose three flags are true is reported as failed
\* exactly when reading one of its files recorded an error.
C26_PassIffNoErrors ==
    /\ \A k \in 1..Len(valLog) :
          ~valLog[k].missing =>
          LET r == valLog[k].result IN
          /\ valLog[k].passed <=> r.errors = <<>>
          /\ valLog[k].passed => AllParity(r)
          /\ AllParity(r) => (~valLog[k].passed <=> HasReadError(r.errors))
    /\ successful_validations =
          Cardinality({k \in 1..Len(valLog) :
                          ~valLog[k].missing /\ valLog[k].result.errors = <<>>})

C26_Witness ==
    \E k \in 1..Len(valLog) :
        /\ ~valLog[k].missing
        /\ AllParity(valLog[k].result)
        /\ ~valLog[k].passed
        /\ HasReadError(valLog[k].result.errors)
        /\ successful_validations = 0

\* Storey annotations of a written document: the name children that follow
\* the name child of their Building element
RECURSIVE EmittedStoreyNames(_)
EmittedStoreyNames(members) ==
    IF members = <<>> THEN <<>>
    ELSE NameTexts(Tail(Head(members).children)) \o EmittedStoreyNames(Tail(members))

\* C27: for every document written by the converter, the storey count the
\* validator computes on the target equals the number of storey annotations
\* the converter emitted, whatever the building names are; a building whose
\* declared name begins with "Storey::" is not counted as a storey.
C27_TargetStoreyCount ==
    \A k \in 1..Len(convResults) :
        Written(k) =>
        count_citygml_storeys(ValidatorInit, outFiles[k], k).count
            = Len(EmittedStoreyNames(outFiles[k].members))

\* The lists a returned result refers to hold what they held at the return
ListsAsReturned(k, errors, warnings) ==
    /\ heap[result_refs[k].errors] = errors
    /\ heap[result_refs[k].warnings] = warnings

\* C28: a Conversion Result or Parity Result, once returned, is not changed
\* by later calls: after any further process_ifc_file or validate_parity
\* calls on the same instance, the errors, warnings, counts and flags of
\* every result returned before are what they were at its return.
C28_ResultsImmutable ==
    /\ Len(result_refs) = Len(convResults) + Len(valLog)
    /\ \A k \in 1..Len(convResults) :
          ListsAsReturned(k, convResults[k].errors, convResults[k].warnings)
    /\ \A k \in 1..Len(valLog) :
          ~valLog[k].missing =>
          ListsAsReturned(k, valLog[k].result.errors, valLog[k].result.warnings)
    /\ \A j, k \in 1..Len(result_refs) :
          (j # k /\ result_refs[j] # NoRefs) =>
             /\ result_refs[j].errors # result_refs[k].errors
             /\ result_refs[j].warnings # result_refs[k].warnings

C28_Witness ==
    /\ Len(convResults) = 2
    /\ convResults[1].errors # <<>>
    /\ convResults[2].errors = <<>>
    /\ convResults[2].warnings # <<>>
    /\ heap[result_refs[1].errors] = convResults[1].errors
    /\ heap[self_refs.errors] = <<>>

\* Data-quality conditions of a file: no building at all, a building
\* without storeys, a building whose classification has no name
NoStoreysFor(file) ==
    {j \in 1..Len(file.buildings) :
        ~file.buildings[j].nameRaises /\ file.buildings[j].storeys = <<>>}

ClassificationUnresolvedFor(file) ==
    {j \in 1..Len(file.buildings) :
        ~file.buildings[j].nameRaises /\ file.buildings[j].classification = ""}

\* C29: process_ifc_file records each data-quality condition (no buildings
\* found, no storeys found for a building, classification unresolved for a
\* building) as a warning, and warnings never fail the file: success is
\* true exactly when the errors list is empty, whatever the warnings hold.
C29_WarningsNeverFail ==
    \A k \in 1..Len(convResults) :
        LET f == inFiles[k]
            r == convResults[k]
        IN /\ r.success <=> r.errors = <<>>
           /\ (f.opens /\ f.writable) =>
                 /\ f.buildings = <<>> => Len(r.warnings) >= 1
                 /\ Len(r.warnings) >= Cardinality(NoStoreysFor(f))
                                       + Cardinality(ClassificationUnresolvedFor(f))

\* Representation invariant of a JobState (what __post_init__ checks)
RepInvariant(j) ==
    /\ j.state = "PLANNED" => (j.started = NoTime /\ j.completed = NoTime)
    /\ j.state = "RUNNING" => j.started # NoTime
    /\ j.state = "COMPLETED" => (j.started # NoTime /\ j.completed # NoTime)
    /\ j.state = "FAILED" => j.started # NoTime

\* C30: in the secure JarvisOps service a run request for an existing plan
\* in state PLANNED creates a new job that passes through RUNNING and ends
\* stored in state COMPLETED with both started and completed times set;
\* every JobState held in SecureJobStorage satisfies the representation
\* invariant, and a job stored as COMPLETED is never replaced by a job in
\* another state.
C30_RunCompletes ==
    /\ (/\ sec_response.request = "run"
        /\ sec_response.token_ok
        /\ sec_response.plan_state = "PLANNED")
       => /\ sec_response.status = 200
          /\ sec_response.stored = <<"RUNNING", "COMPLETED">>
          /\ sec_response.id \in DOMAIN sec_jobs
          /\ sec_jobs[sec_response.id].state = "COMPLETED"
          /\ sec_jobs[sec_response.id].started # NoTime
          /\ sec_jobs[sec_response.id].completed # NoTime
    /\ \A id \in DOMAIN sec_jobs : RepInvariant(sec_jobs[id])
    /\ \A id \in sec_completed : sec_jobs[id].state = "COMPLETED"

====
